---- MODULE Spec2Model ----
(***************************************************************************)
(* Model of coverage-merge.sh (src/unnamed/part_002): the script that      *)
(* stages the Cypress and Vitest coverage files, merges them with          *)
(* `nyc merge`, renders them with `nyc report` and removes its             *)
(* intermediate directories.  One action per command of the script; the   *)
(* file system the script works on is the state.                           *)
(***************************************************************************)
EXTENDS Integers, Sequences, FiniteSets, TLC

VARIABLES
    reportsDir,   \* does $REPORTS_FOLDER (.coverage-data) exist
    orig,         \* $REPORTS_FOLDER/<producer>/coverage-final.json
    staged,       \* $REPORTS_FOLDER/coverage-<producer>.json
    cwdCoverage,  \* ./coverage.json, the output file of `nyc merge`
    nycDir,       \* does $NYC_FOLDER (.nyc_output) exist
    outJson,      \* $NYC_FOLDER/out.json
    finalDir,     \* does $FINAL_OUTPUT_FOLDER (.coverage-html) exist
    index,        \* $FINAL_OUTPUT_FOLDER/index.html (the data it summarises)
    pages,        \* $FINAL_OUTPUT_FOLDER per-file detail pages
    pc,           \* the next command of the script, or idle / done / killed
    exitStatus,   \* exit status of the last finished invocation (-1: none)
    log,          \* notices echoed by the current invocation
    trace,        \* commands run by the current invocation, with their status
    injected,     \* external steps that failed through a tool error
    startOrig,    \* the producer files as they were when the invocation began
    startStaged,  \* the staged files as they were when the invocation began
    startCwd,     \* ./coverage.json as it was when the invocation began
    merged,       \* what this invocation's `nyc merge` wrote (absent: nothing)
    runs,         \* number of invocations started
    regenSince,   \* has a test runner written a file since the last start
    freshStart,   \* regenSince, as it was when the invocation began
    prevDone,     \* did the previous invocation run to its last command
    \* two coverage maps handed to the merge rule, and its result
    inA, inB, outAB,
    mpc,          \* "input", "merged" (inA with inB), "self" (inA with inA)
    \* the counter component (App.tsx)
    count,        \* the React state set by setCount
    captured,     \* the count the handlers of the last render closed over
    dirty,        \* a state update is waiting for its re-render
    buttonText,   \* text of the increment button in the DOM
    parity,       \* the parity paragraphs in the DOM: class and text
    lastEvent,    \* the last click handled: "mount", "inc" or "reset"
    clicks,       \* number of clicks handled since mount
    incSinceReset, \* increment clicks since mount or the last reset click
    batch,        \* the clicks handled since the last render, in order
    \* a call of the counter utilities (utils/counter.ts)
    uArg,         \* the number the utilities are called with
    uInc,         \* what incrementCounter(uArg) returned
    uFmt,         \* what formatCount(uArg) returned
    uEven,        \* what isEvenCount(uArg) returned
    upc,          \* "input", or the utility that was called
    \* the `coverage` script of package.json
    npc,          \* the command of the chain that runs, or idle / failed / done
    npmLog,       \* the chain's test commands that finished, with their status
    npmRuns,      \* `runs` as it was when the chain began
    npmStaged,    \* the staged files as they were when the chain began
    chains        \* number of chains started

vars == <<reportsDir, orig, staged, cwdCoverage, nycDir, outJson, finalDir,
          index, pages, pc, exitStatus, log, trace, injected, startOrig,
          startStaged, startCwd, merged, runs, regenSince, freshStart,
          prevDone, inA, inB, outAB, mpc, count, captured, dirty, buttonText,
          parity, lastEvent, clicks, incSinceReset, batch, uArg, uInc, uFmt,
          uEven, upc, npc, npmLog, npmRuns, npmStaged, chains>>

pipelineVars == <<reportsDir, orig, staged, cwdCoverage, nycDir, outJson,
                  finalDir, index, pages, pc, exitStatus, log, trace,
                  injected, startOrig, startStaged, startCwd, merged, runs,
                  regenSince, freshStart, prevDone>>

mergeVars == <<inA, inB, outAB, mpc>>

appVars == <<count, captured, dirty, buttonText, parity, lastEvent, clicks,
             incSinceReset, batch>>

utilVars == <<uArg, uInc, uFmt, uEven, upc>>

npmVars == <<npc, npmLog, npmRuns, npmStaged, chains>>

\* What the script does not touch.
offVars == <<mergeVars, appVars, utilVars, npmVars>>

fsVars == <<reportsDir, orig, staged, cwdCoverage, nycDir, outJson, finalDir,
            index, pages>>

histVars == <<startOrig, startStaged, startCwd, runs, regenSince, freshStart,
              prevDone>>

-----------------------------------------------------------------------------
(* Bounds *)

MaxRuns == 2
NumLocs == 2
MaxHit == 1
MaxClicks == 12

\* At most this many clicks are handled between two renders.
MaxBatch == 3

\* The utilities are called with the integers at most this far from 0 and
\* from +-2^53.
MaxArg == 10

-----------------------------------------------------------------------------
(* Coverage data *)

Producers == {"cypress", "vitest"}
ProducerOrder == <<"cypress", "vitest">>

Files == {"counter.ts", "App.tsx"}
Locs == 1..NumLocs

ZeroHits == [f \in Files |-> [l \in Locs |-> 0]]

\* A coverage record set: the files it lists and the hit count per location.
NoCov == [files |-> {}, hits |-> ZeroHits]

CovOf(f, h) == [files |-> {f}, hits |-> [ZeroHits EXCEPT ![f] = h]]

\* The unit tests execute every location of counter.ts.
SampleUnit == CovOf("counter.ts", [l \in Locs |-> 1])
\* The component tests execute App.tsx except its last location ...
SampleComp == CovOf("App.tsx", [l \in Locs |-> IF l < NumLocs THEN 1 ELSE 0])
\* ... and a unit run that imports App.tsx misses its first location.
SampleUnitApp == CovOf("App.tsx", [l \in Locs |-> IF l > 1 THEN 1 ELSE 0])

Samples == {SampleUnit, SampleComp, SampleUnitApp}

AbsentFile == [kind |-> "absent", cov |-> NoCov]
MalformedFile == [kind |-> "malformed", cov |-> NoCov]
DataFile(c) == [kind |-> "data", cov |-> c]

Exists(file) == file.kind # "absent"

\* What a test runner can leave at its coverage-final.json.
ProducerOutputs == {DataFile(c) : c \in Samples} \cup {MalformedFile}

\* Variant: only the files the first map knows are merged.
MergeCovKnownFiles(a, b) ==
    [files |-> a.files,
     hits  |-> [f \in Files |-> [l \in Locs |->
                  IF f \in a.files THEN a.hits[f][l] + b.hits[f][l] ELSE 0]]]

\* Variant: a file of the second map replaces the same file of the first.
MergeCovOverwrite(a, b) ==
    [files |-> a.files \cup b.files,
     hits  |-> [f \in Files |-> IF f \in b.files THEN b.hits[f] ELSE a.hits[f]]]

\* Variant: the hit counts are subtracted instead of added.
MergeCovDifference(a, b) ==
    [files |-> a.files \cup b.files,
     hits  |-> [f \in Files |-> [l \in Locs |-> a.hits[f][l] - b.hits[f][l]]]]

\* istanbul's merge of two record sets: union of the files, sum of the hits.
MergeCov(a, b) ==
    [files |-> a.files \cup b.files,
     hits  |-> [f \in Files |-> [l \in Locs |-> a.hits[f][l] + b.hits[f][l]]]]

\* Every coverage map over Files and Locs with hit counts up to MaxHit; a
\* file the map does not list has no hits.
CovSets ==
    {[files |-> F, hits |-> h] :
        <<F, h>> \in {x \in (SUBSET Files) \X [Files -> [Locs -> 0..MaxHit]] :
                        \A f \in Files \ x[1] : x[2][f] = [l \in Locs |-> 0]}}

\* Covered locations and locations of a map, of one file and in aggregate.
CoveredIn(c, f) == Cardinality({l \in Locs : c.hits[f][l] > 0})
Covered(c) == Cardinality({x \in c.files \X Locs : c.hits[x[1]][x[2]] > 0})
Total(c) == Cardinality(c.files) * NumLocs

RECURSIVE MergeAll(_)
MergeAll(fs) ==
    IF fs = <<>> THEN NoCov ELSE MergeCov(Head(fs).cov, MergeAll(Tail(fs)))

-----------------------------------------------------------------------------
(* Notices *)

Notice(k, p) == [kind |-> k, producer |-> p]

\* Variant: the two notices of a producer's check are exchanged.
StageNoticeSwapped(p, present) ==
    IF present THEN Notice("warn", p) ELSE Notice("found", p)

StageNotice(p, present) ==
    IF present THEN Notice("found", p) ELSE Notice("warn", p)

Step(s, rc) == [step |-> s, rc |-> rc]

Running == pc \notin {"idle", "done", "killed"}

-----------------------------------------------------------------------------
(* Counter utilities (utils/counter.ts) and the counter component (App.tsx) *)

\* A TypeScript `number` is an IEEE-754 double.  The integer-valued doubles
\* of the model are written big * 2^53 + off with big in {-1, 0, 1} and a
\* small offset off: the integers around 0 and the integers around the two
\* ends of the range in which every integer is a double
\* (Number.MAX_SAFE_INTEGER = 2^53 - 1).
JsInt(k) == [big |-> 0, off |-> k]

JsBig(s, k) == [big |-> s, off |-> k]

\* Between 2^53 and 2^54 only the even integers are doubles; an odd one is
\* a tie between its neighbours and rounds to the one whose significand is
\* even.  k is the distance from 2^53.
RoundOff(k) ==
    IF k <= 0 \/ k % 2 = 0 THEN k
    ELSE IF ((k - 1) \div 2) % 2 = 0 THEN k - 1 ELSE k + 1

\* The double nearest to the integer big * 2^53 + off.
JsRound(n) ==
    CASE n.big = 0  -> n
      [] n.big = 1  -> JsBig(1, RoundOff(n.off))
      [] n.big = -1 -> JsBig(-1, -RoundOff(-n.off))

IsDouble(n) == JsRound(n) = n

\* JavaScript's + on a number and a small integer.
JsAdd(n, k) == JsRound([n EXCEPT !.off = @ + k])

\* JavaScript's %: the remainder takes the sign of the dividend.
JsRem(a, b) == IF a >= 0 THEN a % b ELSE -((-a) % b)

\* n % 2 for a number of the model: 2^53 is even, so the remainder is that
\* of the offset, with the sign of n.
JsRemTwo(n) == IF n.big = 0 THEN JsRem(n.off, 2) ELSE n.big * (n.off % 2)

\* Number-to-string conversion of a template literal: decimal digits, with
\* a leading - for a negative number (2^53 = 9007199254740992).
JsToString(n) ==
    IF n.big = 0 THEN ToString(n.off)
    ELSE (IF n.big < 0 THEN "-" ELSE "")
            \o "9007199" \o ToString(254740992 + n.big * n.off)

\* Variant: the increment is off by one.
incrementCounterTwice(currentCount) == JsAdd(currentCount, 2)

incrementCounter(currentCount) == JsAdd(currentCount, 1)

\* Variant: reset hands back the count it was called at.
resetCounterStale == captured

\* Variant: reset hands back -1.
resetCounterNegative == JsInt(-1)

resetCounter == JsInt(0)

\* Variant: the sign of a small count is dropped.
formatCountUnsigned(c) ==
    "count is " \o JsToString([c EXCEPT !.off = IF c.big = 0 /\ @ < 0
                                                   THEN -@ ELSE @])

formatCount(c) == "count is " \o JsToString(c)

\* Variant: the parity test is inverted.
isEvenCountInverted(c) == JsRemTwo(c) # 0

\* Variant: even is whatever does not leave the remainder 1.
isEvenCountNotOne(c) == JsRemTwo(c) # 1

isEvenCount(c) == JsRemTwo(c) = 0

\* <p className={isEvenCount(count) ? 'even-count' : 'odd-count'}>
\*   Count is {isEvenCount(count) ? 'even' : 'odd'}</p>
ParityLabel(c) ==
    [class |-> IF isEvenCount(c) THEN "even-count" ELSE "odd-count",
     text  |-> "Count is " \o (IF isEvenCount(c) THEN "even" ELSE "odd")]

\* The component right after mount: useState(0) and the first render.
AppInit ==
    /\ count = JsInt(0)
    /\ captured = JsInt(0)
    /\ dirty = FALSE
    /\ buttonText = formatCount(JsInt(0))
    /\ parity = {ParityLabel(JsInt(0))}
    /\ lastEvent = "mount"
    /\ clicks = 0
    /\ incSinceReset = 0
    /\ batch = <<>>

\* handleIncrement: setCount(incrementCounter(count)), with the count of
\* the render that created the handler.  React re-renders after a click
\* before it dispatches the next one, hence ~dirty.
ClickIncrement ==
    /\ ~dirty
    /\ clicks < MaxClicks
    /\ count' = incrementCounter(captured)
    /\ dirty' = TRUE
    /\ lastEvent' = "inc"
    /\ batch' = Append(batch, "inc")
    /\ clicks' = clicks + 1
    /\ incSinceReset' = incSinceReset + 1
    /\ UNCHANGED <<captured, buttonText, parity, pipelineVars, mergeVars,
                   utilVars, npmVars>>

\* handleReset: setCount(resetCounter())
ClickReset ==
    /\ ~dirty
    /\ clicks < MaxClicks
    /\ count' = resetCounter
    /\ dirty' = TRUE
    /\ lastEvent' = "reset"
    /\ batch' = Append(batch, "reset")
    /\ clicks' = clicks + 1
    /\ incSinceReset' = 0
    /\ UNCHANGED <<captured, buttonText, parity, pipelineVars, mergeVars,
                   utilVars, npmVars>>

\* The re-render: App() runs again with the new state and the DOM is updated.
Render ==
    /\ dirty
    /\ dirty' = FALSE
    /\ captured' = count
    /\ buttonText' = formatCount(count)
    /\ parity' = {ParityLabel(count)}
    /\ batch' = <<>>
    /\ UNCHANGED <<count, lastEvent, clicks, incSinceReset, pipelineVars,
                   mergeVars, utilVars, npmVars>>

NextApp == ClickIncrement \/ ClickReset \/ Render

\* handleIncrement run while an earlier update of the same batch still waits
\* for its re-render (several clicks dispatched inside one batch, as in a
\* single act() callback): the handler is still the one of the last render.
BatchedIncrement ==
    /\ Len(batch) < MaxBatch
    /\ clicks < MaxClicks
    /\ count' = incrementCounter(captured)
    /\ dirty' = TRUE
    /\ lastEvent' = "inc"
    /\ batch' = Append(batch, "inc")
    /\ clicks' = clicks + 1
    /\ incSinceReset' = incSinceReset + 1
    /\ UNCHANGED <<captured, buttonText, parity, pipelineVars, mergeVars,
                   utilVars, npmVars>>

\* handleReset run inside a batch
BatchedReset ==
    /\ Len(batch) < MaxBatch
    /\ clicks < MaxClicks
    /\ count' = resetCounter
    /\ dirty' = TRUE
    /\ lastEvent' = "reset"
    /\ batch' = Append(batch, "reset")
    /\ clicks' = clicks + 1
    /\ incSinceReset' = 0
    /\ UNCHANGED <<captured, buttonText, parity, pipelineVars, mergeVars,
                   utilVars, npmVars>>

NextBatch == BatchedIncrement \/ BatchedReset \/ Render

-----------------------------------------------------------------------------
PipelineInit ==
    /\ reportsDir = FALSE
    /\ orig = [p \in Producers |-> AbsentFile]
    /\ staged = [p \in Producers |-> AbsentFile]
    /\ cwdCoverage = AbsentFile
    /\ nycDir = FALSE
    /\ outJson = AbsentFile
    /\ finalDir = FALSE
    /\ index = AbsentFile
    /\ pages = NoCov
    /\ pc = "idle"
    /\ exitStatus = -1
    /\ log = <<>>
    /\ trace = <<>>
    /\ injected = {}
    /\ startOrig = [p \in Producers |-> AbsentFile]
    /\ startStaged = [p \in Producers |-> AbsentFile]
    /\ startCwd = AbsentFile
    /\ merged = AbsentFile
    /\ runs = 0
    /\ regenSince = FALSE
    /\ freshStart = FALSE
    /\ prevDone = FALSE

\* No coverage maps have been handed to the merge rule.
MergeIdle ==
    /\ inA = NoCov
    /\ inB = NoCov
    /\ outAB = NoCov
    /\ mpc = "input"

\* No call of the counter utilities is under way.
UtilIdle ==
    /\ uArg = JsInt(0)
    /\ uInc = JsInt(0)
    /\ uFmt = ""
    /\ uEven = FALSE
    /\ upc = "idle"

\* `npm run coverage` has not been started.
NpmIdle ==
    /\ npc = "idle"
    /\ npmLog = <<>>
    /\ npmRuns = 0
    /\ npmStaged = [p \in Producers |-> AbsentFile]
    /\ chains = 0

Init == PipelineInit /\ MergeIdle /\ AppInit /\ UtilIdle /\ NpmIdle

\* Two arbitrary valid coverage files are about to be merged.
InitMerge ==
    /\ PipelineInit
    /\ AppInit
    /\ UtilIdle
    /\ NpmIdle
    /\ inA \in CovSets
    /\ inB \in CovSets
    /\ outAB = NoCov
    /\ mpc = "input"

\* npx nyc merge on a directory holding the two files
MergePair ==
    /\ mpc = "input"
    /\ outAB' = MergeCov(inA, inB)
    /\ mpc' = "merged"
    /\ UNCHANGED <<inA, inB, pipelineVars, appVars, utilVars, npmVars>>

\* npx nyc merge on a directory holding the first file and a copy of it
MergeSelf ==
    /\ mpc = "input"
    /\ outAB' = MergeCov(inA, inA)
    /\ mpc' = "self"
    /\ UNCHANGED <<inA, inB, pipelineVars, appVars, utilVars, npmVars>>

NextMerge == MergePair \/ MergeSelf

-----------------------------------------------------------------------------
(* Calls of the counter utilities with an arbitrary integer-valued number *)

\* The numbers the utilities are called with: the integers within MaxArg of
\* 0, of 2^53 and of -2^53 that are doubles.
UtilArgs ==
    {n \in [big : {-1, 0, 1}, off : (-MaxArg)..MaxArg] : IsDouble(n)}

InitUtil ==
    /\ PipelineInit
    /\ MergeIdle
    /\ AppInit
    /\ NpmIdle
    /\ uArg \in UtilArgs
    /\ uInc = JsInt(0)
    /\ uFmt = ""
    /\ uEven = FALSE
    /\ upc = "input"

CallIncrementCounter ==
    /\ upc = "input"
    /\ uInc' = incrementCounter(uArg)
    /\ upc' = "incrementCounter"
    /\ UNCHANGED <<uArg, uFmt, uEven, pipelineVars, mergeVars, appVars,
                   npmVars>>

CallFormatCount ==
    /\ upc = "input"
    /\ uFmt' = formatCount(uArg)
    /\ upc' = "formatCount"
    /\ UNCHANGED <<uArg, uInc, uEven, pipelineVars, mergeVars, appVars,
                   npmVars>>

CallIsEvenCount ==
    /\ upc = "input"
    /\ uEven' = isEvenCount(uArg)
    /\ upc' = "isEvenCount"
    /\ UNCHANGED <<uArg, uInc, uFmt, pipelineVars, mergeVars, appVars,
                   npmVars>>

NextUtil == CallIncrementCounter \/ CallFormatCount \/ CallIsEvenCount

SpecUtil == InitUtil /\ [][NextUtil]_vars

\* A test runner (vitest run --coverage, cypress run --component) writes its
\* coverage-final.json below $REPORTS_FOLDER, creating the directories.
RunTests(p, out) ==
    /\ ~Running
    /\ runs < MaxRuns
    /\ orig' = [orig EXCEPT ![p] = out]
    /\ reportsDir' = TRUE
    /\ regenSince' = TRUE
    /\ UNCHANGED <<staged, cwdCoverage, nycDir, outJson, finalDir, index, pages,
                   pc, exitStatus, log, trace, injected, startOrig,
                   startStaged, startCwd, merged, runs, freshStart, prevDone>>
    /\ UNCHANGED offVars

\* ./coverage-merge.sh is started; its first command is the echo of line 10.
Invoke ==
    /\ ~Running
    /\ runs < MaxRuns
    /\ pc' = "rmNyc"
    /\ log' = <<Notice("merging-reports", "-")>>
    /\ trace' = <<>>
    /\ injected' = {}
    /\ merged' = AbsentFile
    /\ startOrig' = orig
    /\ startStaged' = staged
    /\ startCwd' = cwdCoverage
    /\ runs' = runs + 1
    /\ freshStart' = regenSince
    /\ regenSince' = FALSE
    /\ prevDone' = (pc = "done")
    /\ UNCHANGED <<fsVars, exitStatus>>
    /\ UNCHANGED offVars

\* Common part of every command: advance, record the command and its status.
Ran(here, next, rc) ==
    /\ pc = here
    /\ pc' = next
    /\ trace' = Append(trace, Step(here, rc))
    /\ UNCHANGED offVars

\* line 13: rm -rf "$NYC_FOLDER"
RmNyc ==
    /\ Ran("rmNyc", "mkNyc", 0)
    /\ nycDir' = FALSE
    /\ outJson' = AbsentFile
    /\ UNCHANGED <<reportsDir, orig, staged, cwdCoverage, finalDir, index,
                   pages, exitStatus, log, injected, merged, histVars>>

\* line 14: mkdir -p "$NYC_FOLDER"
MkNyc ==
    /\ Ran("mkNyc", "rmFinal", 0)
    /\ nycDir' = TRUE
    /\ UNCHANGED <<reportsDir, orig, staged, cwdCoverage, outJson, finalDir,
                   index, pages, exitStatus, log, injected, merged, histVars>>

\* line 16: rm -rf "$FINAL_OUTPUT_FOLDER"
RmFinal ==
    /\ Ran("rmFinal", "mkFinal", 0)
    /\ finalDir' = FALSE
    /\ index' = AbsentFile
    /\ pages' = NoCov
    /\ UNCHANGED <<reportsDir, orig, staged, cwdCoverage, nycDir, outJson,
                   exitStatus, log, injected, merged, histVars>>

\* line 17: mkdir -p "$FINAL_OUTPUT_FOLDER"
MkFinal ==
    /\ Ran("mkFinal", "stageCypress", 0)
    /\ finalDir' = TRUE
    /\ UNCHANGED <<reportsDir, orig, staged, cwdCoverage, nycDir, outJson,
                   index, pages, exitStatus, log, injected, merged, histVars>>

\* Variant: the producer's file is copied (cp) instead of moved (mv).
StageCopy(p, here, next) ==
    /\ pc = here
    /\ pc' = next
    /\ trace' = Append(trace, Step(here, 0))
    /\ UNCHANGED offVars
    /\ IF Exists(orig[p])
          THEN staged' = [staged EXCEPT ![p] = orig[p]]
          ELSE UNCHANGED staged
    /\ log' = Append(log, StageNotice(p, Exists(orig[p])))
    /\ UNCHANGED <<reportsDir, orig, cwdCoverage, nycDir, outJson, finalDir,
                   index, pages, exitStatus, injected, merged, histVars>>

\* Variant: mv -n, a staged file that already exists is not overwritten.
StageNoClobber(p, here, next) ==
    /\ pc = here
    /\ pc' = next
    /\ trace' = Append(trace, Step(here, 0))
    /\ UNCHANGED offVars
    /\ IF Exists(orig[p]) /\ ~Exists(staged[p])
          THEN /\ staged' = [staged EXCEPT ![p] = orig[p]]
               /\ orig' = [orig EXCEPT ![p] = AbsentFile]
          ELSE UNCHANGED <<orig, staged>>
    /\ log' = Append(log, StageNotice(p, Exists(orig[p])))
    /\ UNCHANGED <<reportsDir, cwdCoverage, nycDir, outJson, finalDir, index,
                   pages, exitStatus, injected, merged, histVars>>

\* Variant: the warning is echoed after the fi, in both branches.
StageNoElse(p, here, next) ==
    /\ pc = here
    /\ pc' = next
    /\ trace' = Append(trace, Step(here, 0))
    /\ UNCHANGED offVars
    /\ IF Exists(orig[p])
          THEN /\ staged' = [staged EXCEPT ![p] = orig[p]]
               /\ orig' = [orig EXCEPT ![p] = AbsentFile]
               /\ log' = log \o <<Notice("found", p), Notice("warn", p)>>
          ELSE /\ UNCHANGED <<orig, staged>>
               /\ log' = Append(log, Notice("warn", p))
    /\ UNCHANGED <<reportsDir, cwdCoverage, nycDir, outJson, finalDir, index,
                   pages, exitStatus, injected, merged, histVars>>

\* Variant: both producers' files are moved to the same name.
StageSameName(p, here, next) ==
    /\ Ran(here, next, 0)
    /\ IF Exists(orig[p])
          THEN /\ staged' = [staged EXCEPT !["cypress"] = orig[p]]
               /\ orig' = [orig EXCEPT ![p] = AbsentFile]
          ELSE UNCHANGED <<orig, staged>>
    /\ log' = Append(log, StageNotice(p, Exists(orig[p])))
    /\ UNCHANGED <<reportsDir, cwdCoverage, nycDir, outJson, finalDir, index,
                   pages, exitStatus, injected, merged, histVars>>

\* lines 21-26 and 28-33: if [ -f .../coverage-final.json ]; then mv; echo
\* found; else echo warning; fi
Stage(p, here, next) ==
    /\ Ran(here, next, 0)
    /\ IF Exists(orig[p])
          THEN /\ staged' = [staged EXCEPT ![p] = orig[p]]
               /\ orig' = [orig EXCEPT ![p] = AbsentFile]
          ELSE UNCHANGED <<orig, staged>>
    /\ log' = Append(log, StageNotice(p, Exists(orig[p])))
    /\ UNCHANGED <<reportsDir, cwdCoverage, nycDir, outJson, finalDir, index,
                   pages, exitStatus, injected, merged, histVars>>

StageCypress == Stage("cypress", "stageCypress", "stageVitest")

StageVitest == Stage("vitest", "stageVitest", "merge")

\* The files `nyc merge "$REPORTS_FOLDER"` reads: the ones lying directly in
\* the directory (the producers' subdirectories are not descended into).
MergeInputs == SelectSeq([i \in 1..Len(ProducerOrder) |-> staged[ProducerOrder[i]]], Exists)

\* `nyc merge` exits non-zero when its input directory does not exist or an
\* input does not have the structure of a coverage map; it may also fail for
\* a reason outside the script (tool missing, disk), recorded in `injected`.
MergeCanSucceed ==
    /\ reportsDir
    /\ \A i \in 1..Len(MergeInputs) : MergeInputs[i].kind = "data"

\* Variant: a failed merge is tried again.
MergeRetry ==
    \E ok \in (IF MergeCanSucceed THEN BOOLEAN ELSE {FALSE}) :
        /\ Ran("merge", IF ok THEN "mvOut" ELSE "merge", IF ok THEN 0 ELSE 1)
        /\ log' = Append(log, Notice("merging-data", "-"))
        /\ IF ok
              THEN /\ cwdCoverage' = DataFile(MergeAll(MergeInputs))
                   /\ merged' = DataFile(MergeAll(MergeInputs))
              ELSE UNCHANGED <<cwdCoverage, merged>>
        /\ injected' = IF MergeCanSucceed /\ ~ok THEN injected \cup {"merge"}
                                                 ELSE injected
        /\ UNCHANGED <<reportsDir, orig, staged, nycDir, outJson, finalDir,
                       index, pages, exitStatus, histVars>>

\* lines 36-37: echo; npx nyc merge "$REPORTS_FOLDER"  (writes ./coverage.json)
Merge ==
    \E ok \in (IF MergeCanSucceed THEN BOOLEAN ELSE {FALSE}) :
        /\ Ran("merge", "mvOut", IF ok THEN 0 ELSE 1)
        /\ log' = Append(log, Notice("merging-data", "-"))
        /\ IF ok
              THEN /\ cwdCoverage' = DataFile(MergeAll(MergeInputs))
                   /\ merged' = DataFile(MergeAll(MergeInputs))
              ELSE UNCHANGED <<cwdCoverage, merged>>
        /\ injected' = IF MergeCanSucceed /\ ~ok THEN injected \cup {"merge"}
                                                 ELSE injected
        /\ UNCHANGED <<reportsDir, orig, staged, nycDir, outJson, finalDir,
                       index, pages, exitStatus, histVars>>

\* line 38: mv coverage.json "$NYC_FOLDER/out.json"
MvOut ==
    /\ IF Exists(cwdCoverage) /\ nycDir
          THEN /\ Ran("mvOut", "report", 0)
               /\ outJson' = cwdCoverage
               /\ cwdCoverage' = AbsentFile
          ELSE /\ Ran("mvOut", "report", 1)
               /\ UNCHANGED <<outJson, cwdCoverage>>
    /\ UNCHANGED <<reportsDir, orig, staged, nycDir, finalDir, index, pages,
                   exitStatus, log, injected, merged, histVars>>

\* What `nyc report` renders: the coverage files of $NYC_FOLDER.
ReportInput == IF nycDir /\ outJson.kind = "data" THEN outJson.cov ELSE NoCov

\* The html reporter writes one page per listed file and leaves other pages.
WritePages(old, data) ==
    [files |-> old.files \cup data.files,
     hits  |-> [f \in Files |-> IF f \in data.files THEN data.hits[f]
                                                    ELSE old.hits[f]]]

\* lines 41-42: echo; npx nyc report --reporter=html --reporter=text
\*              --report-dir="$FINAL_OUTPUT_FOLDER"
Report ==
    \E ok \in (IF outJson.kind = "malformed" THEN {FALSE} ELSE BOOLEAN) :
        /\ Ran("report", "cleanNyc", IF ok THEN 0 ELSE 1)
        /\ log' = Append(log, Notice("generating", "-"))
        /\ IF ok
              THEN /\ finalDir' = TRUE
                   /\ index' = DataFile(ReportInput)
                   /\ pages' = WritePages(pages, ReportInput)
              ELSE UNCHANGED <<finalDir, index, pages>>
        /\ injected' = IF ~ok THEN injected \cup {"report"} ELSE injected
        /\ UNCHANGED <<reportsDir, orig, staged, cwdCoverage, nycDir, outJson,
                       exitStatus, merged, histVars>>

\* Variant: the merge workspace is left behind.
CleanNycSkipped ==
    /\ pc = "cleanNyc"
    /\ pc' = "cleanReports"
    /\ trace' = Append(trace, Step("cleanNyc", 0))
    /\ UNCHANGED offVars
    /\ UNCHANGED <<fsVars, exitStatus, log, injected, merged, histVars>>

\* line 45: rm -rf "$NYC_FOLDER"
CleanNyc ==
    /\ Ran("cleanNyc", "cleanReports", 0)
    /\ nycDir' = FALSE
    /\ outJson' = AbsentFile
    /\ UNCHANGED <<reportsDir, orig, staged, cwdCoverage, finalDir, index,
                   pages, exitStatus, log, injected, merged, histVars>>

\* line 46: rm -rf "$REPORTS_FOLDER"
CleanReports ==
    /\ Ran("cleanReports", "finish", 0)
    /\ reportsDir' = FALSE
    /\ orig' = [p \in Producers |-> AbsentFile]
    /\ staged' = [p \in Producers |-> AbsentFile]
    /\ UNCHANGED <<cwdCoverage, nycDir, outJson, finalDir, index, pages,
                   exitStatus, log, injected, merged, histVars>>

\* line 48: the last echo; the script's exit status is that of this command.
Finish ==
    /\ Ran("finish", "done", 0)
    /\ log' = Append(log, Notice("generated", "-"))
    /\ exitStatus' = 0
    /\ UNCHANGED <<fsVars, injected, merged, histVars>>

\* The script's process is killed (SIGINT) between two commands.
Interrupt ==
    /\ Running
    /\ pc' = "killed"
    /\ exitStatus' = 130
    /\ UNCHANGED <<fsVars, log, trace, injected, merged, histVars>>
    /\ UNCHANGED offVars

ScriptStep ==
    \/ RmNyc \/ MkNyc \/ RmFinal \/ MkFinal
    \/ StageCypress \/ StageVitest
    \/ Merge \/ MvOut \/ Report
    \/ CleanNyc \/ CleanReports \/ Finish

Next ==
    \/ \E p \in Producers, out \in ProducerOutputs : RunTests(p, out)
    \/ Invoke
    \/ RmNyc \/ MkNyc \/ RmFinal \/ MkFinal
    \/ StageCypress \/ StageVitest
    \/ Merge \/ MvOut \/ Report
    \/ CleanNyc \/ CleanReports \/ Finish
    \/ Interrupt

Spec == Init /\ [][Next]_vars

SpecApp == Init /\ [][NextApp]_vars

SpecBatch == Init /\ [][NextBatch]_vars

SpecMerge == InitMerge /\ [][NextMerge]_vars

-----------------------------------------------------------------------------
(* The `coverage` script of package.json:                                  *)
(*   npm run test:coverage && npm run cypress:coverage && ./coverage-merge.sh *)

NpmDone(cmd, p, rc, out) == [cmd |-> cmd, producer |-> p, rc |-> rc, out |-> out]

\* `npm run coverage` is started; its first command is the unit-test run.
NpmRunCoverage ==
    /\ npc \in {"idle", "failed", "done"}
    /\ ~Running
    /\ chains < MaxRuns
    /\ npc' = "test:coverage"
    /\ npmLog' = <<>>
    /\ npmRuns' = runs
    /\ npmStaged' = staged
    /\ chains' = chains + 1
    /\ UNCHANGED <<pipelineVars, mergeVars, appVars, utilVars>>

\* A test command of the chain finishes.  With success it has written its
\* coverage-final.json and && goes on to `next`; with a failure the chain
\* goes to `stop`, and the runner has left its own earlier file in place or
\* removed it.
NpmTest(cmd, p, next, stop, ok, out) ==
    /\ npc = cmd
    /\ IF ok
          THEN /\ out \in ProducerOutputs
               /\ reportsDir' = TRUE
               /\ regenSince' = TRUE
               /\ npc' = next
          ELSE /\ out \in {orig[p], AbsentFile}
               /\ UNCHANGED <<reportsDir, regenSince>>
               /\ npc' = stop
    /\ orig' = [orig EXCEPT ![p] = out]
    /\ npmLog' = Append(npmLog, NpmDone(cmd, p, IF ok THEN 0 ELSE 1, out))
    /\ UNCHANGED <<staged, cwdCoverage, nycDir, outJson, finalDir, index, pages,
                   pc, exitStatus, log, trace, injected, startOrig,
                   startStaged, startCwd, merged, runs, freshStart, prevDone>>
    /\ UNCHANGED <<npmRuns, npmStaged, chains, mergeVars, appVars, utilVars>>

\* npm run test:coverage  (vitest run --coverage)
NpmTestCoverage ==
    \E ok \in BOOLEAN, out \in ProducerOutputs \cup {AbsentFile} :
        NpmTest("test:coverage", "vitest", "cypress:coverage", "failed", ok,
                out)

\* Variant: the chain goes on after a failed component-test run (; for &&).
NpmCypressCoverageAnyway ==
    \E ok \in BOOLEAN, out \in ProducerOutputs \cup {AbsentFile} :
        NpmTest("cypress:coverage", "cypress", "coverage-merge.sh",
                "coverage-merge.sh", ok, out)

\* npm run cypress:coverage  (cypress run --component)
NpmCypressCoverage ==
    \E ok \in BOOLEAN, out \in ProducerOutputs \cup {AbsentFile} :
        NpmTest("cypress:coverage", "cypress", "coverage-merge.sh", "failed",
                ok, out)

\* ./coverage-merge.sh, the last command of the chain, is started.
NpmMerge ==
    /\ npc = "coverage-merge.sh"
    /\ runs = npmRuns
    /\ Invoke

\* The chain ends when the script's process has ended.
NpmExit ==
    /\ npc = "coverage-merge.sh"
    /\ runs > npmRuns
    /\ ~Running
    /\ npc' = "done"
    /\ UNCHANGED <<npmLog, npmRuns, npmStaged, chains>>
    /\ UNCHANGED <<pipelineVars, mergeVars, appVars, utilVars>>

NextNpm ==
    \/ NpmRunCoverage
    \/ NpmTestCoverage
    \/ NpmCypressCoverage
    \/ NpmMerge
    \/ ScriptStep
    \/ Interrupt
    \/ NpmExit

SpecNpm == Init /\ [][NextNpm]_vars

\* What may lie at a path when the script is started: nothing, or what a
\* test runner or an earlier, possibly interrupted, invocation left there.
LeftOvers == {AbsentFile, MalformedFile, DataFile(SampleUnit)}

\* The script is about to be started once, on an arbitrary file system.
InitAnyFs ==
    /\ MergeIdle /\ AppInit /\ UtilIdle /\ NpmIdle
    /\ reportsDir \in BOOLEAN
    /\ orig \in [Producers -> ProducerOutputs \cup {AbsentFile}]
    /\ staged \in [Producers -> LeftOvers]
    /\ (\E p \in Producers : Exists(orig[p]) \/ Exists(staged[p])) => reportsDir
    /\ cwdCoverage \in {AbsentFile, DataFile(SampleComp)}
    /\ nycDir \in BOOLEAN
    /\ outJson \in {AbsentFile, DataFile(SampleUnit)}
    /\ Exists(outJson) => nycDir
    /\ finalDir \in BOOLEAN
    /\ index = (IF finalDir THEN DataFile(SampleUnit) ELSE AbsentFile)
    /\ pages = (IF finalDir THEN SampleUnit ELSE NoCov)
    /\ pc = "idle"
    /\ exitStatus = -1
    /\ log = <<>>
    /\ trace = <<>>
    /\ injected = {}
    /\ startOrig = [p \in Producers |-> AbsentFile]
    /\ startStaged = [p \in Producers |-> AbsentFile]
    /\ startCwd = AbsentFile
    /\ merged = AbsentFile
    /\ runs = MaxRuns - 1
    /\ regenSince = FALSE
    /\ freshStart = FALSE
    /\ prevDone = FALSE

NextOnce == Invoke \/ ScriptStep \/ Interrupt

\* One invocation from an arbitrary file system.  The shell runs the next
\* command of a started script unless the process is killed.
SpecAnyFs == InitAnyFs /\ [][NextOnce]_vars /\ WF_vars(ScriptStep)
-----------------------------------------------------------------------------
(* Vocabulary of the properties *)

Range(seq) == {seq[i] : i \in 1..Len(seq)}

StepRan(s) == \E i \in 1..Len(trace) : trace[i].step = s
StepOk(s) == \E i \in 1..Len(trace) : trace[i].step = s /\ trace[i].rc = 0
StepFailed(s) == \E i \in 1..Len(trace) : trace[i].step = s /\ trace[i].rc # 0
AllStepsOk == \A i \in 1..Len(trace) : trace[i].rc = 0

\* The commands of the script in the order of its lines.
ScriptOrder ==
    <<"rmNyc", "mkNyc", "rmFinal", "mkFinal", "stageCypress", "stageVitest",
      "merge", "mvOut", "report", "cleanNyc", "cleanReports", "finish">>

StageStep(p) == IF p = "cypress" THEN "stageCypress" ELSE "stageVitest"

NoticesAbout(p) == Cardinality({i \in 1..Len(log) : log[i].producer = p})

PresentAtStart == {p \in Producers : Exists(startOrig[p])}
ThisMerge == IF merged.kind = "data" THEN merged.cov ELSE NoCov

\* The producer files that were at their expected paths at the start, in
\* the order the script looks for them.
StartInputs ==
    SelectSeq([i \in 1..Len(ProducerOrder) |-> startOrig[ProducerOrder[i]]],
              Exists)

\* $REPORTS_FOLDER/coverage-<producer>.json
StagedName(p) == "coverage-" \o p \o ".json"

TraceSteps == [i \in 1..Len(trace) |-> trace[i].step]

-----------------------------------------------------------------------------
(* C1 - C10 *)

\* C1: when the merge or the render step fails the script's exit status is
\* non-zero, and the exit status is zero only when every step completed.
C1_ExitStatusReportsFailure ==
    pc = "done" =>
        /\ (StepFailed("merge") \/ StepFailed("report")) => exitStatus # 0
        /\ exitStatus = 0 => AllStepsOk

\* C2: a failing step aborts the script: no later step is executed after a
\* step that failed.
C2_FailureAborts ==
    \A i \in 1..Len(trace) : trace[i].rc # 0 => i = Len(trace)

\* C3: the intermediate artifacts are deleted only after report generation
\* has succeeded; if merge or render failed, the staged coverage data is
\* still on disk when the script stops.
C3_CleanupOnlyAfterReport ==
    /\ (StepRan("cleanNyc") \/ StepRan("cleanReports"))
           => StepOk("merge") /\ StepOk("report")
    /\ (pc \in {"done", "killed"} /\ (StepFailed("merge") \/ StepFailed("report")))
           => \A p \in PresentAtStart : staged[p] = startOrig[p]

\* C4: with no producer file present at start (the reports directory may be
\* missing too) and the external tools working, the script ends with exit
\* status 0 and an empty report, and its merge step raises no error.
C4_NoInputsEmptyReport ==
    (pc = "done" /\ PresentAtStart = {} /\ injected = {}) =>
        /\ exitStatus = 0
        /\ ~StepFailed("merge")
        /\ index = DataFile(NoCov)
        /\ pages = NoCov

\* C5: the reports directory exists whenever the merge is invoked, and with
\* no producer contributing the merge step completes without error.
C5_MergeDirExists ==
    /\ pc = "merge" => reportsDir
    /\ (StepRan("merge") /\ PresentAtStart = {} /\ "merge" \notin injected)
           => StepOk("merge")

\* C6: with exactly one (valid) producer file present the script warns about
\* the missing producer, runs merge, render and cleanup successfully, and the
\* merged result is exactly the coverage of the present input.
C6_SingleInputMergedExactly ==
    \A p \in Producers :
        (pc = "done" /\ PresentAtStart = {p} /\ startOrig[p].kind = "data"
                     /\ injected = {}) =>
            /\ \A q \in Producers \ {p} : Notice("warn", q) \in Range(log)
            /\ AllStepsOk
            /\ exitStatus = 0
            /\ merged = startOrig[p]
            /\ index = startOrig[p]

\* C7 (as stated): after an invocation every producer file that existed at
\* its original path before the invocation still exists there unchanged.
C7_OriginalsKept ==
    (pc = "done" /\ ~regenSince) =>
        \A p \in PresentAtStart : orig[p] = startOrig[p]

\* C7 (amended): the script never alters a producer file's content, but it
\* moves the file: once the producer's check has run the file is gone from
\* its original path, its unchanged content lies at coverage-<producer>.json
\* until cleanup, and after the invocation it is at neither path.
C7_OriginalsMovedUnchanged ==
    \A p \in Producers :
        /\ Running => orig[p] \in {startOrig[p], AbsentFile}
        /\ (Running /\ StepRan("stageVitest")) => orig[p] = AbsentFile
        /\ (Running /\ StepRan("stageVitest") /\ ~StepRan("cleanReports")
                    /\ p \in PresentAtStart) => staged[p] = startOrig[p]
        /\ (pc = "done" /\ ~regenSince) =>
               ~Exists(orig[p]) /\ ~Exists(staged[p])

C7_Witness ==
    /\ pc = "merge"
    /\ PresentAtStart = Producers
    /\ \A p \in Producers : ~Exists(orig[p]) /\ staged[p] = startOrig[p]

\* C8: a second invocation that follows a completed one with no test run in
\* between finds both producer files absent, warns about each of them and
\* is never stuck before its last command.
C8_RerunFindsNothing ==
    (runs >= 2 /\ prevDone /\ ~freshStart /\ pc # "idle") =>
        /\ PresentAtStart = {}
        /\ \A p \in Producers : Notice("found", p) \notin Range(log)
        /\ StepRan("stageCypress") => Notice("warn", "cypress") \in Range(log)
        /\ StepRan("stageVitest") => Notice("warn", "vitest") \in Range(log)
        /\ Running => ENABLED ScriptStep

C8_Witness ==
    /\ runs >= 2 /\ prevDone /\ ~freshStart /\ pc = "done"
    /\ \A p \in Producers : ~Exists(startStaged[p])
    /\ \A p \in Producers : Notice("warn", p) \in Range(log)

\* C9: after an invocation whose report generation succeeded the final
\* report directory holds the rendered report, and the merge workspace,
\* out.json and the staged coverage-<producer>.json files are gone.
C9_ReportKeptWorkspaceGone ==
    (pc = "done" /\ StepOk("report")) =>
        /\ finalDir /\ index.kind = "data" /\ pages.files = index.cov.files
        /\ ~nycDir /\ ~Exists(outJson)
        /\ \A p \in Producers : ~Exists(staged[p])

C9_Witness ==
    /\ pc = "done" /\ StepOk("report")
    /\ index.cov.files = Files
    /\ PresentAtStart = Producers

\* C10: after an invocation the final report reflects only the data merged
\* in that invocation; nothing of an earlier invocation remains in it.
C10_ReportOnlyThisRun ==
    (pc = "done" /\ Exists(index)) =>
        /\ index = DataFile(ThisMerge)
        /\ pages.files = ThisMerge.files
        /\ \A f \in ThisMerge.files : pages.hits[f] = ThisMerge.hits[f]

-----------------------------------------------------------------------------
(* C11 - C20 *)

\* C11: the merged coverage of an invocation on two valid producer files is
\* determined by these two files alone, so repeating the invocation on the
\* same two files gives the same percentages whatever earlier invocations
\* left behind.
C11_SameInputsSameMerge ==
    (pc = "done" /\ PresentAtStart = Producers /\ injected = {}
                 /\ \A p \in Producers : startOrig[p].kind = "data") =>
        LET m == MergeCov(startOrig["cypress"].cov, startOrig["vitest"].cov)
        IN  /\ merged = DataFile(m)
            /\ index = DataFile(m)
            /\ pages.files = m.files
            /\ \A f \in Files : CoveredIn(pages, f) = CoveredIn(m, f)

C11_Witness ==
    /\ pc = "done" /\ runs >= 2 /\ injected = {}
    /\ PresentAtStart = Producers
    /\ \A p \in Producers : startOrig[p].kind = "data"
    /\ \E p \in Producers : Exists(startStaged[p]) /\ startStaged[p] # startOrig[p]
    /\ index.kind = "data"

C15_StagesInOrder ==
    /\ Len(trace) <= Len(ScriptOrder)
    /\ \A i \in 1..Len(trace) : trace[i].step = ScriptOrder[i]
    /\ StepRan("merge") => StepRan("stageCypress") /\ StepRan("stageVitest")
    /\ StepRan("report") => StepOk("merge") /\ StepOk("mvOut")
    /\ StepRan("cleanNyc") => StepRan("report")

\* C16: after an invocation nothing outside the reports directory, the merge
\* workspace and the final report directory has changed; in particular a
\* coverage.json of the invocation directory is as it was.
C16_OnlyFixedPathsTouched ==
    pc = "done" => cwdCoverage = startCwd

\* C17: a producer's check emits exactly one notice: `found` iff its
\* coverage-final.json existed, and then the file lies at
\* coverage-<producer>.json and no longer at its original path; otherwise
\* the warning, and nothing is moved for that producer.
C17_OneNoticePerProducer ==
    \A p \in Producers :
        /\ ~StepRan(StageStep(p)) => NoticesAbout(p) = 0
        /\ StepRan(StageStep(p)) =>
             /\ NoticesAbout(p) = 1
             /\ Notice("found", p) \in Range(log) <=> Exists(startOrig[p])
             /\ Notice("warn", p) \in Range(log) <=> ~Exists(startOrig[p])
        /\ (StepRan(StageStep(p)) /\ ~StepRan("cleanReports") /\ ~regenSince) =>
             IF Exists(startOrig[p])
                THEN staged[p] = startOrig[p] /\ ~Exists(orig[p])
                ELSE staged[p] = startStaged[p] /\ ~Exists(orig[p])

C17_Witness ==
    /\ pc = "merge"
    /\ PresentAtStart = {"cypress"}
    /\ Exists(startStaged["vitest"])
    /\ Notice("found", "cypress") \in Range(log)
    /\ Notice("warn", "vitest") \in Range(log)
    /\ staged["cypress"] = startOrig["cypress"]

C19_ResetToZero ==
    /\ resetCounter = JsInt(0)
    /\ lastEvent = "reset" => count = JsInt(0)
    /\ (lastEvent = "reset" /\ ~dirty) => buttonText = "count is 0"

C19_Witness ==
    /\ lastEvent = "reset" /\ ~dirty
    /\ clicks = 4
    /\ buttonText = "count is 0"

\* C20: exactly one parity label is shown and it agrees with the count
\* ('even-count' / 'Count is even' for an even count, 'odd-count' / 'Count is
\* odd' for an odd one); it starts as even and flips on every increment click.
C20_ParityLabel ==
    /\ [](/\ Cardinality(parity) = 1
          /\ ~dirty =>
               parity = {IF count.big = 0 /\ count.off % 2 = 0
                            THEN [class |-> "even-count", text |-> "Count is even"]
                            ELSE [class |-> "odd-count", text |-> "Count is odd"]}
          /\ clicks = 0 =>
               parity = {[class |-> "even-count", text |-> "Count is even"]})
    /\ [][(dirty /\ ~dirty' /\ lastEvent = "inc") => parity' # parity]_vars

C20_Witness ==
    /\ ~dirty /\ count = JsInt(3) /\ lastEvent = "inc"
    /\ parity = {[class |-> "odd-count", text |-> "Count is odd"]}

\* C23: the merged data of an invocation depends only on the producer files
\* that were at their expected paths when it started: it is the merge of
\* exactly those, whatever else lay in the flat reports directory.
C23_MergeOfStartFiles ==
    StepOk("merge") => merged = DataFile(MergeAll(StartInputs))

\* C24: whenever the render step runs, out.json in the workspace is what
\* the merge step of the same invocation wrote, and there is no out.json
\* when that merge wrote nothing.
C24_RenderThisMerge ==
    pc = "report" => outJson = merged

\* C25: the final notice 'Coverage report generated at ...' is emitted only
\* when the render step succeeded and index.html exists.
C25_NoticeOnlyAfterRender ==
    Notice("generated", "-") \in Range(log) =>
        StepOk("report") /\ Exists(index)

\* C26: when both producer files are present they are staged under two
\* distinct names, staging the second leaves the first in place, and the
\* merge step receives both staged files.
C26_BothStaged ==
    (PresentAtStart = Producers /\ Running) =>
        /\ StagedName("cypress") # StagedName("vitest")
        /\ \A p \in Producers :
               (StepRan(StageStep(p)) /\ ~StepRan("cleanReports")) =>
                   staged[p] = startOrig[p]
        /\ pc = "merge" =>
               MergeInputs = <<startOrig["cypress"], startOrig["vitest"]>>

C26_Witness ==
    /\ pc = "merge"
    /\ PresentAtStart = Producers
    /\ Len(MergeInputs) = 2
    /\ MergeInputs[1] # MergeInputs[2]

\* The test commands of the chain, both finished with success, in order.
BothTestsPassed ==
    /\ Len(npmLog) = 2
    /\ npmLog[1].cmd = "test:coverage" /\ npmLog[1].rc = 0
    /\ npmLog[2].cmd = "cypress:coverage" /\ npmLog[2].rc = 0

\* C27: in the `coverage` script the merge script is started only after the
\* unit-test coverage run and then the component-test coverage run have
\* both finished with success; if either fails the merge script is never
\* started and no producer coverage file is moved or deleted.
C27_MergeAfterBothTests ==
    /\ (npc = "coverage-merge.sh" \/ (npc # "idle" /\ runs > npmRuns))
           => BothTestsPassed
    /\ npc = "cypress:coverage" =>
           Len(npmLog) = 1 /\ npmLog[1].cmd = "test:coverage" /\ npmLog[1].rc = 0
    /\ npc = "failed" =>
           /\ runs = npmRuns /\ ~Running
           /\ staged = npmStaged
           /\ \A i \in 1..Len(npmLog) :
                  npmLog[i].rc = 0 => orig[npmLog[i].producer] = npmLog[i].out

C27_Witness ==
    /\ npc = "failed"
    /\ Len(npmLog) = 2 /\ npmLog[2].rc = 1
    /\ Exists(orig["vitest"])
    /\ chains = 2 /\ runs = 1

\* C28: the script terminates whatever the file system is at its start
\* and whichever steps fail: a started script can always run its next
\* command, runs the commands in the order of its lines, each at most once,
\* and, unless its process is killed, reaches its last command.
C28_Terminates ==
    /\ [](Running => ENABLED ScriptStep)
    /\ [](pc # "idle" => TraceSteps = SubSeq(ScriptOrder, 1, Len(trace)))
    /\ [](pc = "done" => TraceSteps = ScriptOrder)
    /\ (Running ~> pc \in {"done", "killed"})

C28_Witness ==
    /\ pc = "done"
    /\ Len(trace) = Len(ScriptOrder)
    /\ StepFailed("merge") /\ StepFailed("mvOut")
    /\ startStaged["vitest"].kind = "malformed"

\* The number is twice some integer (2^53 is).
DivisibleByTwo(n) == \E m \in (-MaxArg)..MaxArg : n.off = 2 * m

\* C21: isEvenCount(n) is true exactly when n is divisible by 2, for every
\* integer n, negative ones included: true for -2, false for -1.
C21_EvenIffDivisible ==
    upc = "isEvenCount" =>
        /\ uEven <=> DivisibleByTwo(uArg)
        /\ uArg = JsInt(-2) => uEven
        /\ uArg = JsInt(-1) => ~uEven

C21_Witness == upc = "isEvenCount" /\ uArg = JsInt(-1) /\ ~uEven

\* n + 1 as an integer, whether or not it is a double.
PlusOne(n) == [n EXCEPT !.off = @ + 1]

\* -(2^53 - 1) <= n <= 2^53 - 1
IsSafeInteger(n) ==
    \/ n.big = 0
    \/ n.big = 1 /\ n.off < 0
    \/ n.big = -1 /\ n.off > 0

\* The decimal digits of a safe integer.
Digits(n) ==
    CASE n.big = 0  -> ToString(n.off)
      [] n.big = 1  -> "9007199254740" \o ToString(992 + n.off)
      [] n.big = -1 -> "-9007199254740" \o ToString(992 - n.off)

\* C22 as stated: incrementCounter(n) is n + 1 for every integer n, large
\* ones included, and formatCount(n) is 'count is ' followed by n.
C22_EveryInteger ==
    /\ upc = "incrementCounter" => uInc = PlusOne(uArg)
    /\ (upc = "formatCount" /\ IsSafeInteger(uArg)) =>
           uFmt = "count is " \o Digits(uArg)

\* C22, amended: incrementCounter(n) is n + 1 and formatCount(n) is
\* 'count is ' followed by the decimal digits of n, for every integer n
\* from -(2^53 - 1) to 2^53 - 1, negative ones included.
C22_SafeIntegers ==
    /\ (upc = "incrementCounter" /\ IsSafeInteger(uArg)) =>
           uInc = PlusOne(uArg)
    /\ (upc = "formatCount" /\ IsSafeInteger(uArg)) =>
           uFmt = "count is " \o Digits(uArg)
    /\ (upc = "formatCount" /\ uArg = JsInt(-1)) => uFmt = "count is -1"
    /\ (upc = "formatCount" /\ uArg = JsBig(1, -1)) =>
           uFmt = "count is 9007199254740991"

C22_Witness ==
    /\ upc = "incrementCounter"
    /\ uArg = JsBig(1, -1)
    /\ uInc = JsBig(1, 0)

\* C29: no increment click is lost: after two increment clicks handled
\* before the component re-renders the count is two higher than the
\* rendered one, and after a reset click followed by an increment click
\* before a re-render the count is 1.
C29_NoClickLost ==
    /\ batch = <<"inc", "inc">> => count = JsInt(captured.off + 2)
    /\ batch = <<"reset", "inc">> => count = JsInt(1)

\* C30: the count is a non-negative integer in every reachable state of
\* the component: it starts at 0 and every step leaves it as it is, adds
\* one to it or sets it to 0.
C30_CountNonNegative ==
    /\ count = JsInt(0)
    /\ [](count.big = 0 /\ count.off \in Nat)
    /\ [][\/ count' = count
           \/ count' = JsInt(count.off + 1)
           \/ count' = JsInt(0)]_vars

C30_Witness ==
    /\ count = JsInt(5)
    /\ clicks > 6
    /\ ~dirty
====
